---- MODULE Spec2Model ----
(***************************************************************************)
(* lakedrop: file ingestion and SQL session core (src-tauri/src/lib.rs).   *)
(*                                                                         *)
(* Three specifications share the definitions below:                       *)
(*   Spec        the session (AppState behind a Mutex) driven by           *)
(*               concurrent calls of the four commands;                    *)
(*   SpecDetect  detect_file_kind and the load dispatch of                 *)
(*               scan_file_metadata applied to one path and one file;      *)
(*   SpecExcel   the row loop of load_excel_sheet, one data row per step.  *)
(*                                                                         *)
(* Conventions: Option<T> is a sequence of length 0 (None) or 1 (Some);    *)
(* Result<T, String> is a record with ok and err, where err is the error   *)
(* kind of the message the code produces; a file name is a sequence of     *)
(* one-character strings.                                                  *)
(***************************************************************************)
EXTENDS Integers, Sequences, FiniteSets, TLC

None == <<>>
Some(x) == <<x>>
IsSome(o) == Len(o) = 1
Unwrap(o) == o[1]

Min(a, b) == IF a <= b THEN a ELSE b

(***************************************************************************)
(* Strings and paths                                                       *)
(***************************************************************************)
UpperAlpha ==
  <<"A","B","C","D","E","F","G","H","I","J","K","L","M",
    "N","O","P","Q","R","S","T","U","V","W","X","Y","Z">>
LowerAlpha ==
  <<"a","b","c","d","e","f","g","h","i","j","k","l","m",
    "n","o","p","q","r","s","t","u","v","w","x","y","z">>

\* char::to_ascii_lowercase
LowerChar(c) ==
  IF \E i \in 1..Len(UpperAlpha) : UpperAlpha[i] = c
    THEN LowerAlpha[CHOOSE i \in 1..Len(UpperAlpha) : UpperAlpha[i] = c]
    ELSE c

\* char::to_ascii_uppercase (the letter case of the extensions of SpecDetect)
UpperChar(c) ==
  IF \E i \in 1..Len(LowerAlpha) : LowerAlpha[i] = c
    THEN UpperAlpha[CHOOSE i \in 1..Len(LowerAlpha) : LowerAlpha[i] = c]
    ELSE c

\* the text compared as written, in its own letter case
keep_case(s) == s

\* str::to_ascii_lowercase
to_ascii_lowercase(s) == [i \in 1..Len(s) |-> LowerChar(s[i])]
to_ascii_uppercase(s) == [i \in 1..Len(s) |-> UpperChar(s[i])]

RECURSIVE AsStr(_)
\* the String made of the characters of s
AsStr(s) == IF s = <<>> THEN "" ELSE s[1] \o AsStr(Tail(s))

\* index of the last '.' of a file name, 0 when it has none
LastDot(name) ==
  IF \E i \in 1..Len(name) : name[i] = "."
    THEN CHOOSE i \in 1..Len(name) :
           name[i] = "." /\ \A j \in (i+1)..Len(name) : name[j] # "."
    ELSE 0

\* Path::extension: the part after the last '.', None when the name has no
\* '.', is "..", or has its only '.' in first position
PathExtension(name) ==
  LET i == LastDot(name) IN
  IF name = <<".", ".">> \/ i <= 1 THEN None
  ELSE Some(SubSeq(name, i + 1, Len(name)))

\* Path::file_stem: the name without its extension
PathFileStem(name) ==
  LET i == LastDot(name) IN
  IF name = <<>> THEN None
  ELSE IF name = <<".", ".">> \/ i <= 1 THEN Some(name)
  ELSE Some(SubSeq(name, 1, i - 1))

(***************************************************************************)
(* Files                                                                   *)
(*   st    "missing" | "unreadable" (exists, open fails) | "file"          *)
(*   head  the first bytes of the file, at most two                        *)
(*   gz    the bytes are a gzip stream (then head is the gzip magic)       *)
(*   fmt   the format of the (decompressed) content                        *)
(*   full  the whole content parses (FALSE: only its beginning does)       *)
(*   size  the length std::fs::metadata reports                            *)
(*   table the table of a non-Excel content                                *)
(*   book  the sheets of an Excel content                                  *)
(***************************************************************************)
GzipMagic == <<31, 139>>

NoFile ==
  [st |-> "missing", head |-> <<>>, gz |-> FALSE, fmt |-> "none",
   full |-> FALSE, size |-> 0, table |-> <<>>, book |-> <<>>]

ReadFs(fs, path) == IF path \in DOMAIN fs THEN fs[path] ELSE NoFile

\* File::open
CanOpen(f) == f.st = "file"

\* a sniff that looks at the first byte only
gzip_magic_first_byte(f) ==
  IF ~CanOpen(f) THEN [ok |-> FALSE, err |-> "IoError", val |-> FALSE]
  ELSE [ok |-> TRUE, err |-> "",
        val |-> (Len(f.head) >= 1 /\ f.head[1] = 31)]

\* gzip_magic: Err when the file cannot be opened, else whether two bytes
\* were read and they are 0x1f 0x8b
gzip_magic(f) ==
  IF ~CanOpen(f) THEN [ok |-> FALSE, err |-> "IoError", val |-> FALSE]
  ELSE [ok |-> TRUE, err |-> "",
        val |-> (Len(f.head) = 2 /\ f.head = GzipMagic)]

Ok(v) == [ok |-> TRUE, err |-> "", val |-> v]
Err(e) == [ok |-> FALSE, err |-> e, val |-> <<>>]

NoSpec == [kind |-> "none", compressed |-> FALSE, extension |-> ""]

\* the extension table of detect_file_kind; "" for an extension it rejects
KindOfExt(ext) ==
  CASE ext \in {"parquet", "parq"} -> "Parquet"
    [] ext \in {"csv", "tsv", "txt"} -> "Csv"
    [] ext \in {"jsonl", "ndjson"} -> "JsonLines"
    [] ext = "json" -> "Json"
    [] ext \in {"arrow", "feather", "ipc"} -> "Arrow"
    [] ext \in {"xlsx", "xls"} -> "Excel"
    [] OTHER -> ""

OptStr(o) == IF IsSome(o) THEN AsStr(to_ascii_lowercase(Unwrap(o))) ELSE ""

\* detect_file_kind: Ok(FileSpec) or Err(UnsupportedFormat)
detect_file_kind(path, fs) ==
  LET ext0 == OptStr(PathExtension(path))
      gzext == ext0 = "gz"
      stem == PathFileStem(path)
      ext == IF gzext
               THEN (IF IsSome(stem) THEN OptStr(PathExtension(Unwrap(stem)))
                     ELSE "")
               ELSE ext0
      kind == KindOfExt(ext)
      magic == gzip_magic(ReadFs(fs, path))
      compressed == IF gzext THEN TRUE
                    ELSE (IF magic.ok THEN magic.val ELSE FALSE)
  IN IF kind = "" THEN [ok |-> FALSE, err |-> "UnsupportedFormat", val |-> NoSpec]
     ELSE [ok |-> TRUE, err |-> "",
           val |-> [kind |-> kind, compressed |-> compressed, extension |-> ext]]

(***************************************************************************)
(* Values.  Text (cell text, column names) is a sequence of characters.    *)
(*   AnyValue          [t, i, s]: t the variant, i its integer payload,    *)
(*                     s its text payload                                  *)
(*   calamine Data     [t, i, s] likewise (Empty, String, Int, Bool)       *)
(*   Series            [name, dtype, values]                               *)
(*   DataFrame         a sequence of Series                                *)
(***************************************************************************)
AvNull == [t |-> "Null", i |-> 0, s |-> <<>>]
AvStr(s) == [t |-> "String", i |-> 0, s |-> s]
AvI64(n) == [t |-> "Int64", i |-> n, s |-> <<>>]

XlEmpty == [t |-> "Empty", i |-> 0, s |-> <<>>]
XlStr(s) == [t |-> "String", i |-> 0, s |-> s]
XlInt(n) == [t |-> "Int", i |-> n, s |-> <<>>]
XlBool(b) == [t |-> "Bool", i |-> (IF b THEN 1 ELSE 0), s |-> <<>>]

DigitChars == <<"0","1","2","3","4","5","6","7","8","9">>

RECURSIVE NatToChars(_)
\* the decimal digits of a natural number
NatToChars(n) ==
  IF n < 10 THEN <<DigitChars[n + 1]>>
  ELSE Append(NatToChars(n \div 10), DigitChars[(n % 10) + 1])

\* i64::to_string
IntToChars(n) == IF n < 0 THEN <<"-">> \o NatToChars(0 - n) ELSE NatToChars(n)

WhitespaceChars == {" ", "\t", "\n", "\r"}

\* str::trim().is_empty()
TrimIsEmpty(s) == \A i \in 1..Len(s) : s[i] \in WhitespaceChars

\* excel_cell_to_string: Option<String>
excel_cell_to_string(cell) ==
  CASE cell.t = "Empty" -> None
    [] cell.t = "String" -> Some(cell.s)
    [] cell.t = "Int" -> Some(IntToChars(cell.i))
    [] cell.t = "Bool" ->
         Some(IF cell.i = 1 THEN <<"t","r","u","e">> ELSE <<"f","a","l","s","e">>)

\* the synthesized name numbered from 0
ColNameFromZero(pos) == <<"c","o","l","_">> \o IntToChars(pos - 1)

\* format!("col_{}", idx + 1) for the 0-based index idx = pos - 1
ColName(pos) == <<"c","o","l","_">> \o IntToChars(pos)

\* one header cell at 1-based position pos (load_excel_sheet, header map)
HeaderName(cell, pos) ==
  LET v == excel_cell_to_string(cell) IN
  IF IsSome(v) /\ ~TrimIsEmpty(Unwrap(v)) THEN Unwrap(v) ELSE ColName(pos)

\* headers of the header row, <<>> when the sheet has no row
ExcelHeaders(rows) ==
  IF rows = <<>> THEN <<>>
  ELSE [k \in 1..Len(rows[1]) |-> HeaderName(rows[1][k], k)]

\* one turn of the data-row loop of load_excel_sheet on the state
\* [headers, columns], columns holding Option<String> values
ExcelPushRow(st, row) ==
  LET n0 == Len(st.headers)
      grow == Len(row) > n0
      hs == IF grow
              THEN st.headers \o [k \in 1..(Len(row) - n0) |-> ColName(n0 + k)]
              ELSE st.headers
      cs == IF grow
              THEN st.columns \o [k \in 1..(Len(row) - n0) |-> <<>>]
              ELSE st.columns
  IN [headers |-> hs,
      columns |-> [idx \in 1..Len(cs) |->
                     Append(cs[idx],
                            IF idx <= Len(row) THEN excel_cell_to_string(row[idx])
                            ELSE None)]]

RECURSIVE ExcelLoop(_, _)
\* the data-row loop over the rows that follow the header row
ExcelLoop(st, rows) ==
  IF rows = <<>> THEN st ELSE ExcelLoop(ExcelPushRow(st, rows[1]), Tail(rows))

\* Series::new(name, Vec<Option<String>>)
SeriesOfOptStr(name, values) ==
  [name |-> name, dtype |-> "String",
   values |-> [k \in 1..Len(values) |->
                 IF IsSome(values[k]) THEN AvStr(Unwrap(values[k])) ELSE AvNull]]

\* DataFrame::new: Err when the series differ in length or share a name
DataFrameNew(series) ==
  IF \E a, b \in 1..Len(series) :
       a # b /\ (Len(series[a].values) # Len(series[b].values)
                 \/ series[a].name = series[b].name)
    THEN Err("SchemaError")
    ELSE Ok(series)

Height(df) == IF df = <<>> THEN 0 ELSE Len(df[1].values)
Width(df) == Len(df)

\* the series of the materialized sheet: headers.iter().zip(columns)
ExcelSeries(st) ==
  [k \in 1..Min(Len(st.headers), Len(st.columns)) |->
     SeriesOfOptStr(st.headers[k], st.columns[k])]

SheetNames(book) == [k \in 1..Len(book) |-> book[k].name]

\* open_workbook_auto: the file opens and holds a workbook
OpenWorkbook(f) ==
  IF ~CanOpen(f) THEN Err("IoError")
  ELSE IF f.gz \/ f.fmt # "excel" THEN Err("ParseError")
  ELSE Ok(f.book)

\* an active sheet that is the first sheet whatever the caller asked for
ActiveSheetFirst(sheets, sheet_name) ==
  IF sheets # <<>> THEN Some(sheets[1]) ELSE None

\* the active sheet (lines 145-147): the caller's, else the first, else None
ActiveSheet(sheets, sheet_name) ==
  IF IsSome(sheet_name) THEN sheet_name
  ELSE IF sheets # <<>> THEN Some(sheets[1]) ELSE None

\* lines 151-177 on the rows of the range: headers, then the data-row loop
ExcelRun(headers, rows) ==
  ExcelLoop([headers |-> headers, columns |-> [c \in 1..Len(headers) |-> <<>>]],
            IF rows = <<>> THEN <<>> ELSE Tail(rows))

\* lines 151-185: the DataFrame of the rows of one sheet
MaterializeRows(rows) == DataFrameNew(ExcelSeries(ExcelRun(ExcelHeaders(rows), rows)))

\* the return of load_excel_sheet (lines 185-186)
PackSheet(df, sheets, active) ==
  IF ~df.ok THEN Err(df.err)
  ELSE Ok([df |-> df.val, sheets |-> sheets, active |-> active])

\* lines 145-186 on an opened workbook; worksheet_range fails on a name the
\* workbook does not have
LoadSheetOfBook(book, sheets, active) ==
  IF ~IsSome(active) THEN Err("NoSheets")
  ELSE IF ~\E k \in 1..Len(book) : book[k].name = Unwrap(active)
    THEN Err("SheetError")
  ELSE PackSheet(
         MaterializeRows(
           book[CHOOSE k \in 1..Len(book) : book[k].name = Unwrap(active)].rows),
         sheets, Unwrap(active))

LoadWorkbook(wb, sheet_name) ==
  IF ~wb.ok THEN Err(wb.err)
  ELSE LoadSheetOfBook(wb.val, SheetNames(wb.val),
                       ActiveSheet(SheetNames(wb.val), sheet_name))

\* load_excel_sheet: Ok([df, sheets, active]) or Err
load_excel_sheet(path, sheet_name, fs) ==
  LoadWorkbook(OpenWorkbook(ReadFs(fs, path)), sheet_name)

(***************************************************************************)
(* Ingestion.  A LazyFrame is [scan, path, kind, schema, df]: a scan of    *)
(* the file at path, read again at every collect (Parquet and Csv), or an  *)
(* in-memory DataFrame df.  A delimited text content has the separator of  *)
(* its extension.                                                          *)
(***************************************************************************)
SchemaOf(df) == [k \in 1..Len(df) |-> [name |-> df[k].name, dtype |-> df[k].dtype]]

FmtOfKind(kind) ==
  CASE kind = "Parquet" -> "parquet"
    [] kind = "Csv" -> "csv"
    [] kind = "JsonLines" -> "jsonl"
    [] kind = "Json" -> "json"
    [] kind = "Arrow" -> "arrow"
    [] kind = "Excel" -> "excel"

EagerFrame(kind, df) ==
  [scan |-> FALSE, path |-> <<>>, kind |-> kind, schema |-> SchemaOf(df), df |-> df]

\* the readers that parse the whole content of an opened, plain file
ReadEager(f, kind) ==
  IF ~CanOpen(f) THEN Err("IoError")
  ELSE IF f.gz \/ f.fmt # FmtOfKind(kind) \/ ~f.full THEN Err("ParseError")
  ELSE Ok(EagerFrame(kind, f.table))

\* GzDecoder::read_to_end, then the in-memory reader
ReadGz(f, kind) ==
  IF ~CanOpen(f) THEN Err("IoError")
  ELSE IF ~f.gz THEN Err("IoError")
  ELSE IF f.fmt # FmtOfKind(kind) \/ ~f.full THEN Err("ParseError")
  ELSE Ok(EagerFrame(kind, f.table))

\* scan_parquet / LazyCsvReader::finish with the schema read from the
\* beginning of the file (lines 336-340 of scan_file_metadata included)
ScanFrame(f, path, kind) ==
  IF ~CanOpen(f) THEN Err("IoError")
  ELSE IF f.gz \/ f.fmt # FmtOfKind(kind) THEN Err("ParseError")
  ELSE Ok([scan |-> TRUE, path |-> path, kind |-> kind,
           schema |-> SchemaOf(f.table), df |-> <<>>])

\* the (Excel, false) arm: the sheet's DataFrame as a LazyFrame
ExcelFrame(x) == IF x.ok THEN Ok(EagerFrame("Excel", x.val.df)) ELSE Err(x.err)

\* load_lazy_frame: the match on (spec.kind, spec.compressed)
load_lazy_frame(path, spec, fs) ==
  LET f == ReadFs(fs, path) IN
  CASE spec.kind \in {"Parquet", "Csv"} /\ ~spec.compressed ->
         ScanFrame(f, path, spec.kind)
    [] spec.kind \in {"JsonLines", "Json", "Arrow"} /\ ~spec.compressed ->
         ReadEager(f, spec.kind)
    [] spec.kind = "Excel" /\ ~spec.compressed ->
         ExcelFrame(load_excel_sheet(path, None, fs))
    [] spec.kind \in {"Csv", "JsonLines", "Json"} /\ spec.compressed ->
         ReadGz(f, spec.kind)
    [] OTHER -> Err("UnsupportedCompression")

\* LazyFrame::collect
Collect(lf, fs) ==
  IF ~lf.scan THEN Ok(lf.df)
  ELSE LET f == ReadFs(fs, lf.path) IN
       IF ~CanOpen(f) THEN Err("IoError")
       ELSE IF f.gz \/ f.fmt # FmtOfKind(lf.kind) \/ ~f.full
                 \/ SchemaOf(f.table) # lf.schema
         THEN Err("ParseError")
       ELSE Ok(f.table)

CountOf(c) == IF c.ok THEN Ok(Height(c.val)) ELSE Err(c.err)

\* lazy_row_count: the count-only aggregation
lazy_row_count(lf, fs) == CountOf(Collect(lf, fs))

\* Result::unwrap_or(0)
UnwrapOr0(r) == IF r.ok THEN r.val ELSE 0

\* std::fs::metadata(path).map(len).unwrap_or(0)
FileSize(f) == IF f.st = "missing" THEN 0 ELSE f.size

\* the Excel branch of scan_file_metadata (lines 330-333)
ScanExcel(x) ==
  IF ~x.ok THEN Err(x.err)
  ELSE Ok([lf |-> EagerFrame("Excel", x.val.df), sheets |-> x.val.sheets,
           active_sheet |-> Some(x.val.active), row_count |-> Height(x.val.df),
           schema |-> SchemaOf(x.val.df)])

\* ScanLazy with the failure of the count propagated to the caller
ScanLazyStrict(l, fs) ==
  IF ~l.ok THEN Err(l.err)
  ELSE IF ~lazy_row_count(l.val, fs).ok THEN Err(lazy_row_count(l.val, fs).err)
  ELSE Ok([lf |-> l.val, sheets |-> <<>>, active_sheet |-> None,
           row_count |-> lazy_row_count(l.val, fs).val,
           schema |-> l.val.schema])

\* the other branch of scan_file_metadata (lines 335-342)
ScanLazy(l, fs) ==
  IF ~l.ok THEN Err(l.err)
  ELSE Ok([lf |-> l.val, sheets |-> <<>>, active_sheet |-> None,
           row_count |-> UnwrapOr0(lazy_row_count(l.val, fs)),
           schema |-> l.val.schema])

\* lines 345-359: the response and what the commit will write
ScanBuilt(path, kind, file_size, loaded) ==
  IF ~loaded.ok THEN Err(loaded.err)
  ELSE Ok([lf |-> loaded.val.lf, path |-> path, kind |-> kind,
           sheets |-> loaded.val.sheets,
           active_sheet |-> loaded.val.active_sheet,
           response |->
             [file_name |-> path, file_path |-> path, file_size |-> file_size,
              row_count |-> loaded.val.row_count,
              schema |-> loaded.val.schema,
              sheets |-> loaded.val.sheets,
              active_sheet |-> loaded.val.active_sheet]])

\* lines 325-343 once the kind is detected
ScanDetected(path, fs, d) ==
  IF ~d.ok THEN Err(d.err)
  ELSE ScanBuilt(path, d.val.kind, FileSize(ReadFs(fs, path)),
                 IF d.val.kind = "Excel"
                   THEN ScanExcel(load_excel_sheet(path, None, fs))
                   ELSE ScanLazy(load_lazy_frame(path, d.val, fs), fs))

\* scan_file_metadata up to the construction of the response (lines
\* 323-359): Ok([lf, path, kind, sheets, active_sheet, response]) or Err
scan_load(path, fs) == ScanDetected(path, fs, detect_file_kind(path, fs))

(***************************************************************************)
(* Value coercion, SQL execution and export                                *)
(***************************************************************************)
\* An integer cell at its machine width is [t, bits]: t the variant and bits
\* the pattern of the value in 16-bit limbs, least significant first (one
\* limb below 2^8 for the 8-bit variants).
Limb == 2^16

IntVariants ==
  {"Int8", "Int16", "Int32", "Int64", "UInt8", "UInt16", "UInt32", "UInt64"}

IsSignedVariant(t) == t \in {"Int8", "Int16", "Int32", "Int64"}

BitsOfVariant(t) ==
  CASE t \in {"Int8", "UInt8"} -> 8
    [] t \in {"Int16", "UInt16"} -> 16
    [] t \in {"Int32", "UInt32"} -> 32
    [] t \in {"Int64", "UInt64"} -> 64

LimbsOfWidth(w) == IF w <= 16 THEN 1 ELSE w \div 16

\* the modulus of the most significant limb
TopLimb(w) == IF w = 8 THEN 2^8 ELSE Limb

IsWide(value) == "bits" \in DOMAIN value

\* i < 0 on a signed pattern of w bits
IsNegative(bits, w) == bits[LimbsOfWidth(w)] >= TopLimb(w) \div 2

\* u as u64, and i as u64 of an i that is not negative
ZeroExtend(bits) == [k \in 1..4 |-> IF k <= Len(bits) THEN bits[k] ELSE 0]

\* i as i64 of a signed pattern of w bits
SignExtend(bits, w) ==
  IF ~IsNegative(bits, w) THEN ZeroExtend(bits)
  ELSE [k \in 1..4 |->
          IF k < Len(bits) THEN bits[k]
          ELSE IF k = Len(bits) THEN bits[k] + (Limb - TopLimb(w))
          ELSE Limb - 1]

\* a Number that takes every 64-bit pattern as an i64
NumberFromAsSigned(value) ==
  IF IsNegative(ZeroExtend(value.bits), 64) \/
       (IsSignedVariant(value.t) /\ IsNegative(value.bits, BitsOfVariant(value.t)))
    THEN [n |-> "NegInt", bits |-> SignExtend(value.bits, BitsOfVariant(value.t))]
    ELSE [n |-> "PosInt", bits |-> ZeroExtend(value.bits)]

\* serde_json::Value::from of an integer: PosInt(u64) of an unsigned or
\* non-negative value, NegInt(i64) of a negative one
NumberFrom(value) ==
  IF IsSignedVariant(value.t) /\ IsNegative(value.bits, BitsOfVariant(value.t))
    THEN [n |-> "NegInt", bits |-> SignExtend(value.bits, BitsOfVariant(value.t))]
    ELSE [n |-> "PosInt", bits |-> ZeroExtend(value.bits)]

\* any_value_to_json: a serde_json::Value [j, i, s], or [j, n] of an integer
\* cell at its machine width
any_value_to_json(value) ==
  CASE value.t = "Null" -> [j |-> "null", i |-> 0, s |-> <<>>]
    [] value.t = "Int64" /\ ~IsWide(value) ->
         [j |-> "number", i |-> value.i, s |-> <<>>]
    [] value.t \in IntVariants /\ IsWide(value) ->
         [j |-> "number", n |-> NumberFrom(value)]
    [] value.t = "String" -> [j |-> "string", i |-> 0, s |-> value.s]

\* Display of AnyValue (value.to_string()): null, the decimal digits, the
\* quoted text
AnyValueToString(value) ==
  CASE value.t = "Null" -> <<"n","u","l","l">>
    [] value.t = "Int64" -> IntToChars(value.i)
    [] value.t = "String" -> <<"\"">> \o value.s \o <<"\"">>

ColId == <<"i","d">>
ColNameCol == <<"n","a","m","e">>

HasCol(df, name) == \E k \in 1..Len(df) : df[k].name = name
ColOf(df, name) == df[CHOOSE k \in 1..Len(df) : df[k].name = name]

RECURSIVE KeepIdx(_, _, _)
\* the indices k..Height(df) whose value in series ser is not null, in order
KeepIdx(ser, k, n) ==
  IF k > n THEN <<>>
  ELSE IF ser.values[k].t # "Null" THEN <<k>> \o KeepIdx(ser, k + 1, n)
  ELSE KeepIdx(ser, k + 1, n)

TakeRows(df, idx) ==
  [c \in 1..Len(df) |->
     [df[c] EXCEPT !.values = [r \in 1..Len(idx) |-> df[c].values[idx[r]]]]]

\* SQLContext::execute(sql).collect() with `source` registered as df, for
\* the statements of the model; QueryError for any other text
Execute(sql, df) ==
  CASE sql = "SELECT * FROM source" -> Ok(df)
    [] sql = "SELECT name, id FROM source" ->
         IF HasCol(df, ColNameCol) /\ HasCol(df, ColId)
           THEN Ok(<<ColOf(df, ColNameCol), ColOf(df, ColId)>>)
           ELSE Err("QueryError")
    [] sql = "SELECT * FROM source WHERE name IS NOT NULL" ->
         IF HasCol(df, ColNameCol)
           THEN Ok(TakeRows(df, KeepIdx(ColOf(df, ColNameCol), 1, Height(df))))
           ELSE Err("QueryError")
    [] OTHER -> Err("QueryError")

\* the last n rows in place of the first n
df_tail(df, n) ==
  [c \in 1..Len(df) |->
     [df[c] EXCEPT !.values =
        SubSeq(df[c].values, Height(df) - Min(n, Height(df)) + 1, Height(df))]]

\* DataFrame::head(Some(n))
df_head(df, n) ==
  [c \in 1..Len(df) |->
     [df[c] EXCEPT !.values = SubSeq(df[c].values, 1, Min(n, Height(df)))]]

\* execute on the collected source; a source that cannot be collected is a
\* QueryError
ExecuteOn(src, sql) == IF ~src.ok THEN Err("QueryError") ELSE Execute(sql, src.val)

\* the query of exec_sql and export_query: register, execute, collect
RunQuery(source, fs, sql) == ExecuteOn(Collect(source, fs), sql)

NoResult == [columns |-> <<>>, rows |-> <<>>, row_count |-> 0]

\* lines 437-461: the QueryResult of the (truncated) DataFrame
QueryResultOf(df) ==
  [columns |-> SchemaOf(df),
   rows |-> [r \in 1..Height(df) |->
               [c \in 1..Width(df) |-> any_value_to_json(df[c].values[r])]],
   row_count |-> Height(df)]

\* lines 431-435: the row limit
Truncate(df, max_rows) ==
  IF IsSome(max_rows) THEN df_head(df, Unwrap(max_rows)) ELSE df

\* lines 425-461 on the outcome q of the query
ExecResult(q, max_rows) ==
  IF ~q.ok THEN [ok |-> FALSE, err |-> q.err, val |-> NoResult]
  ELSE [ok |-> TRUE, err |-> "", val |-> QueryResultOf(Truncate(q.val, max_rows))]

\* exec_sql after the lock is taken: [res, sql_run]
exec_sql(app, fs, sql, max_rows) ==
  IF ~IsSome(app.source)
    THEN [res |-> [ok |-> FALSE, err |-> "NoSourceLoaded", val |-> NoResult],
          sql_run |-> FALSE]
  ELSE [res |-> ExecResult(RunQuery(Unwrap(app.source), fs, sql), max_rows),
        sql_run |-> TRUE]

\* File::create / the xlsx writer can write at path
CanCreate(f) == f.st # "unreadable"

\* the file CsvWriter leaves
CsvFile(df) ==
  [st |-> "file", head |-> (IF df = <<>> THEN <<>> ELSE <<34, 34>>),
   gz |-> FALSE, fmt |-> (IF df = <<>> THEN "garbage" ELSE "csv"),
   full |-> TRUE, size |-> Width(df) + Height(df), table |-> df, book |-> <<>>]

\* a cell written by set_value(text)
XlsxCell(chars) == XlStr(chars)

\* the workbook of the xlsx branch: Sheet1, the names in row 1, then one
\* row per result row with every value rendered by to_string
XlsxFile(df) ==
  [st |-> "file", head |-> <<80, 75>>, gz |-> FALSE, fmt |-> "excel",
   full |-> TRUE, size |-> 1 + Width(df) + Height(df), table |-> <<>>,
   book |-> <<[name |-> "Sheet1",
               rows |-> <<[c \in 1..Width(df) |-> XlsxCell(df[c].name)]>>
                        \o [r \in 1..Height(df) |->
                              [c \in 1..Width(df) |->
                                 XlsxCell(AnyValueToString(df[c].values[r]))]]]>>]

\* ExportResult comparing the format without regard to letter case
ExportResultAnyCase(q, fs, path, format) ==
  IF ~q.ok THEN [res |-> Err(q.err), fs |-> fs]
  ELSE IF format \notin {"csv", "CSV", "xlsx"}
    THEN [res |-> Err("UnsupportedExportFormat"), fs |-> fs]
  ELSE IF ~CanCreate(ReadFs(fs, path))
    THEN [res |-> Err("IoError"), fs |-> fs]
  ELSE [res |-> Ok(<<>>),
        fs |-> [x \in DOMAIN fs \cup {path} |->
                  IF x = path
                    THEN (IF format = "xlsx" THEN XlsxFile(q.val) ELSE CsvFile(q.val))
                    ELSE fs[x]]]

\* lines 484-517 on the outcome q of the query: [res, fs]
ExportResult(q, fs, path, format) ==
  IF ~q.ok THEN [res |-> Err(q.err), fs |-> fs]
  ELSE IF format \notin {"csv", "xlsx"}
    THEN [res |-> Err("UnsupportedExportFormat"), fs |-> fs]
  ELSE IF ~CanCreate(ReadFs(fs, path))
    THEN [res |-> Err("IoError"), fs |-> fs]
  ELSE [res |-> Ok(<<>>),
        fs |-> [x \in DOMAIN fs \cup {path} |->
                  IF x = path
                    THEN (IF format = "csv" THEN CsvFile(q.val) ELSE XlsxFile(q.val))
                    ELSE fs[x]]]

\* export_query creating the destination file before it looks at the session
export_query_create_first(app, fs, sql, path, format) ==
  LET made == IF CanCreate(ReadFs(fs, path))
                THEN [x \in DOMAIN fs \cup {path} |->
                        IF x = path THEN CsvFile(<<>>) ELSE fs[x]]
                ELSE fs
  IN IF ~IsSome(app.source)
       THEN [res |-> Err("NoSourceLoaded"), sql_run |-> FALSE, fs |-> made]
     ELSE [sql_run |-> TRUE] @@
          ExportResult(RunQuery(Unwrap(app.source), made, sql), made, path, format)

\* export_query after the lock is taken: [res, sql_run, fs]
export_query(app, fs, sql, path, format) ==
  IF ~IsSome(app.source)
    THEN [res |-> Err("NoSourceLoaded"), sql_run |-> FALSE, fs |-> fs]
  ELSE [sql_run |-> TRUE] @@
       ExportResult(RunQuery(Unwrap(app.source), fs, sql), fs, path, format)

(***************************************************************************)
(* Session commands                                                        *)
(***************************************************************************)
AppStateDefault ==
  [source |-> None, file_path |-> None, file_kind |-> None,
   sheets |-> <<>>, active_sheet |-> None]

\* scan_commit with a merge in place of the replacement: an empty sheet list
\* and an absent active sheet keep the values of the session
scan_commit_merge(app, ld) ==
  [source |-> Some(ld.lf), file_path |-> Some(ld.path),
   file_kind |-> Some(ld.kind),
   sheets |-> (IF ld.response.sheets = <<>> THEN app.sheets
               ELSE ld.response.sheets),
   active_sheet |-> (IF IsSome(ld.response.active_sheet)
                       THEN ld.response.active_sheet ELSE app.active_sheet)]

\* a commit that leaves the file kind of an earlier load in place
scan_commit_stale_kind(app, ld) ==
  [source |-> Some(ld.lf), file_path |-> Some(ld.path),
   file_kind |-> (IF IsSome(app.file_kind) THEN app.file_kind ELSE Some(ld.kind)),
   sheets |-> ld.response.sheets,
   active_sheet |-> ld.response.active_sheet]

\* the assignments of scan_file_metadata under the guard (lines 362-366)
scan_commit(app, ld) ==
  [source |-> Some(ld.lf), file_path |-> Some(ld.path),
   file_kind |-> Some(ld.kind), sheets |-> ld.response.sheets,
   active_sheet |-> ld.response.active_sheet]

NoResponse ==
  [file_name |-> <<>>, file_path |-> <<>>, file_size |-> 0, row_count |-> 0,
   schema |-> <<>>, sheets |-> <<>>, active_sheet |-> None]

\* lines 388-402: the response of a sheet switch
SelectResponse(path, file_size, v) ==
  [file_name |-> path, file_path |-> path, file_size |-> file_size,
   row_count |-> Height(v.df), schema |-> SchemaOf(v.df), sheets |-> v.sheets,
   active_sheet |-> Some(v.active)]

\* a sheet switch that drops the session's table when the sheet fails to load
SelectLoadedDropsSource(app, file_size, x) ==
  IF ~x.ok
    THEN [res |-> [ok |-> FALSE, err |-> x.err, val |-> NoResponse],
          app |-> [app EXCEPT !.source = None], wb_read |-> TRUE]
  ELSE [res |-> [ok |-> TRUE, err |-> "",
                 val |-> SelectResponse(Unwrap(app.file_path), file_size, x.val)],
        wb_read |-> TRUE,
        app |-> [app EXCEPT !.source = Some(EagerFrame("Excel", x.val.df)),
                            !.sheets = x.val.sheets,
                            !.active_sheet = Some(x.val.active)]]

\* SelectLoaded leaving the active sheet of the session as it was
SelectLoadedKeepsActive(app, file_size, x) ==
  IF ~x.ok
    THEN [res |-> [ok |-> FALSE, err |-> x.err, val |-> NoResponse], app |-> app,
          wb_read |-> TRUE]
  ELSE [res |-> [ok |-> TRUE, err |-> "",
                 val |-> SelectResponse(Unwrap(app.file_path), file_size, x.val)],
        wb_read |-> TRUE,
        app |-> [app EXCEPT !.source = Some(EagerFrame("Excel", x.val.df)),
                            !.sheets = x.val.sheets]]

\* lines 385-408 on the outcome x of load_excel_sheet: [res, app, wb_read]
SelectLoaded(app, file_size, x) ==
  IF ~x.ok
    THEN [res |-> [ok |-> FALSE, err |-> x.err, val |-> NoResponse], app |-> app,
          wb_read |-> TRUE]
  ELSE [res |-> [ok |-> TRUE, err |-> "",
                 val |-> SelectResponse(Unwrap(app.file_path), file_size, x.val)],
        wb_read |-> TRUE,
        app |-> [app EXCEPT !.source = Some(EagerFrame("Excel", x.val.df)),
                            !.sheets = x.val.sheets,
                            !.active_sheet = Some(x.val.active)]]

\* select_excel_sheet without the check of the file kind
select_excel_sheet_any_kind(app, fs, sheet) ==
  IF ~IsSome(app.file_path)
    THEN [res |-> [ok |-> FALSE, err |-> "NoSourceLoaded", val |-> NoResponse],
          app |-> app, wb_read |-> FALSE]
  ELSE SelectLoaded(app, FileSize(ReadFs(fs, Unwrap(app.file_path))),
                    load_excel_sheet(Unwrap(app.file_path), Some(sheet), fs))

\* select_excel_sheet after the lock is taken: [res, app, wb_read]
select_excel_sheet(app, fs, sheet) ==
  IF ~IsSome(app.file_path)
    THEN [res |-> [ok |-> FALSE, err |-> "NoSourceLoaded", val |-> NoResponse],
          app |-> app, wb_read |-> FALSE]
  ELSE IF app.file_kind # Some("Excel")
    THEN [res |-> [ok |-> FALSE, err |-> "NotExcel", val |-> NoResponse],
          app |-> app, wb_read |-> FALSE]
  ELSE SelectLoaded(app, FileSize(ReadFs(fs, Unwrap(app.file_path))),
                    load_excel_sheet(Unwrap(app.file_path), Some(sheet), fs))

(***************************************************************************)
(* Inputs of the session specification                                     *)
(***************************************************************************)
Procs == {1, 2}

\* the largest max_rows the callers pass
MaxRowsArg == 4

P_csv == <<"a",".","c","s","v">>
P_xlsx == <<"b",".","x","l","s","x">>
P_jsongz == <<"c",".","j","s","o","n",".","g","z">>
P_missing == <<"m",".","c","s","v">>
P_pdf == <<"x",".","p","d","f">>
P_pqgz == <<"e",".","p","a","r","q","u","e","t",".","g","z">>
P_nosheet == <<"n",".","x","l","s","x">>
P_garbage == <<"g",".","j","s","o","n">>
P_ragged == <<"q",".","x","l","s","x">>
P_out == <<"o",".","c","s","v">>
P_ro == <<"r",".","c","s","v">>

T_A ==
  <<[name |-> ColId, dtype |-> "Int64",
     values |-> <<AvI64(3), AvI64(1), AvI64(2)>>],
    [name |-> ColNameCol, dtype |-> "String",
     values |-> <<AvStr(<<"c">>), AvNull, AvStr(<<"b">>)>>]>>

T_C ==
  <<[name |-> ColId, dtype |-> "Int64", values |-> <<AvI64(7), AvI64(8)>>]>>

Book1 ==
  <<[name |-> "S1",
     rows |-> << <<XlStr(ColId), XlStr(ColNameCol)>>,
                 <<XlInt(1), XlStr(<<"x">>)>>,
                 <<XlInt(2), XlEmpty>> >>],
    [name |-> "S2",
     rows |-> << <<XlStr(<<" ">>), XlStr(<<"v">>)>>,
                 <<XlStr(<<"p">>), XlStr(<<"q">>), XlBool(TRUE)>> >>],
    [name |-> "S3",
     rows |-> << <<XlStr(<<"h">>)>>,
                 <<XlStr(<<"a">>)>>,
                 <<XlStr(<<"b">>), XlStr(<<"c">>)>> >>]>>

PlainFile(fmt, table, book) ==
  [st |-> "file", head |-> <<80, 75>>, gz |-> FALSE, fmt |-> fmt, full |-> TRUE,
   size |-> 9, table |-> table, book |-> book]

GzFile(fmt, table) ==
  [st |-> "file", head |-> GzipMagic, gz |-> TRUE, fmt |-> fmt, full |-> TRUE,
   size |-> 5, table |-> table, book |-> <<>>]

Fs0 ==
  (P_csv :> PlainFile("csv", T_A, <<>>))
  @@ (P_xlsx :> PlainFile("excel", <<>>, Book1))
  @@ (P_jsongz :> GzFile("json", T_C))
  @@ (P_pqgz :> GzFile("parquet", T_A))
  @@ (P_nosheet :> PlainFile("excel", <<>>, <<>>))
  @@ (P_garbage :> PlainFile("garbage", <<>>, <<>>))
  @@ (P_ragged :> PlainFile("excel", <<>>, <<Book1[3]>>))
  @@ (P_ro :> [NoFile EXCEPT !.st = "unreadable", !.size = 3])

ScanPaths ==
  {P_csv, P_xlsx, P_jsongz, P_missing, P_pdf, P_pqgz, P_nosheet, P_garbage,
   P_ragged}
SheetArgs == {"S1", "S2", "S3", "zz"}
SqlArgs ==
  {"SELECT * FROM source", "SELECT name, id FROM source",
   "SELECT * FROM source WHERE name IS NOT NULL", "SELEC"}
ExportSqlArgs == {"SELECT * FROM source", "SELEC"}
MaxRowsArgs == {None} \cup {Some(n) : n \in 0..MaxRowsArg}
ExportPaths == {P_out, P_ro}
FormatArgs == {"csv", "xlsx", "CSV", "json"}
RemovablePaths == {P_xlsx}

(***************************************************************************)
(* State                                                                   *)
(*   app       the AppState inside the Mutex                               *)
(*   fs        the files, by path                                          *)
(*   lock      the process holding the MutexGuard, 0 when free             *)
(*   poisoned  the Mutex is poisoned                                       *)
(*   pc        where each process is: idle, scan_loaded (its load is built *)
(*             and not yet committed), in_select, in_exec, in_export       *)
(*   pend      the built load of a process in scan_loaded                  *)
(*   resp      what the last step returned to its caller, if it returned   *)
(*   probe     the input and outputs of SpecDetect                         *)
(*   xl        the loop state of SpecExcel                                 *)
(***************************************************************************)
VARIABLES app, fs, lock, poisoned, pc, pend, resp, probe, xl, cv

vars == <<app, fs, lock, poisoned, pc, pend, resp, probe, xl, cv>>

NoArgs == [path |-> <<>>, sheet |-> "", sql |-> "", max_rows |-> None, format |-> ""]

NoResp ==
  [op |-> "none", ok |-> FALSE, err |-> "", val |-> <<>>, args |-> NoArgs,
   ran |-> FALSE]

\* what a call returns: its Result, its arguments, and ran: it got as far as
\* evaluating the SQL (exec_sql, export_query) or opening the workbook
\* (select_excel_sheet)
Return(op, res, args, ran) ==
  [op |-> op, ok |-> res.ok, err |-> res.err, val |-> res.val, args |-> args,
   ran |-> ran]

ProbeOff == [stage |-> "off"]
CvOff == [stage |-> "off"]
XlOff == [stage |-> "off"]

Init ==
  /\ app = AppStateDefault
  /\ fs = Fs0
  /\ lock = 0
  /\ poisoned = FALSE
  /\ pc = [p \in Procs |-> "idle"]
  /\ pend = [p \in Procs |-> None]
  /\ resp = NoResp
  /\ probe = ProbeOff
  /\ xl = XlOff
  /\ cv = CvOff

\* ScanLoad writing file_path to the session before the load is known to
\* succeed
ScanLoadEarlyWrite(p, path) ==
  /\ pc[p] = "idle"
  /\ app' = [app EXCEPT !.file_path = Some(path)]
  /\ LET r == scan_load(path, fs) IN
     IF r.ok
       THEN /\ pc' = [pc EXCEPT ![p] = "scan_loaded"]
            /\ pend' = [pend EXCEPT ![p] = Some(r.val)]
            /\ resp' = NoResp
       ELSE /\ resp' = Return("scan", [r EXCEPT !.val = NoResponse],
                              [NoArgs EXCEPT !.path = path], FALSE)
            /\ UNCHANGED <<pc, pend>>
  /\ UNCHANGED <<fs, lock, poisoned, probe, xl, cv>>

\* scan_file_metadata, lines 323-359: detection, loading and counting, with
\* the lock not held
ScanLoad(p, path) ==
  /\ pc[p] = "idle"
  /\ LET r == scan_load(path, fs) IN
     IF r.ok
       THEN /\ pc' = [pc EXCEPT ![p] = "scan_loaded"]
            /\ pend' = [pend EXCEPT ![p] = Some(r.val)]
            /\ resp' = NoResp
       ELSE /\ resp' = Return("scan", [r EXCEPT !.val = NoResponse],
                              [NoArgs EXCEPT !.path = path], FALSE)
            /\ UNCHANGED <<pc, pend>>
  /\ UNCHANGED <<app, fs, lock, poisoned, probe, xl, cv>>

\* scan_file_metadata, lines 361-368: lock, commit the five fields, return
ScanCommit(p) ==
  /\ pc[p] = "scan_loaded"
  /\ lock = 0
  /\ LET ld == Unwrap(pend[p])
         args == [NoArgs EXCEPT !.path = ld.path]
     IN IF poisoned
          THEN /\ resp' = Return("scan", [Err("StateUnavailable") EXCEPT
                                            !.val = NoResponse], args, FALSE)
               /\ app' = app
          ELSE /\ resp' = Return("scan", Ok(ld.response), args, FALSE)
               /\ app' = scan_commit(app, ld)
  /\ pc' = [pc EXCEPT ![p] = "idle"]
  /\ pend' = [pend EXCEPT ![p] = None]
  /\ UNCHANGED <<fs, lock, poisoned, probe, xl, cv>>

OpOfPc(s) ==
  CASE s = "in_select" -> "select" [] s = "in_exec" -> "exec"
    [] s = "in_export" -> "export" [] OTHER -> "none"

\* state.lock() of select_excel_sheet, exec_sql and export_query (lines 376,
\* 417, 471): blocks while the lock is held, fails when it is poisoned
Lock(p, to) ==
  /\ pc[p] = "idle"
  /\ lock = 0
  /\ IF poisoned
       THEN /\ resp' = Return(OpOfPc(to), Err("StateUnavailable"), NoArgs, FALSE)
            /\ UNCHANGED <<pc, lock>>
       ELSE /\ resp' = NoResp
            /\ pc' = [pc EXCEPT ![p] = to]
            /\ lock' = p
  /\ UNCHANGED <<app, fs, poisoned, pend, probe, xl, cv>>

\* select_excel_sheet, lines 377-409, the guard dropped at the return
SelectBody(p, sheet) ==
  /\ pc[p] = "in_select"
  /\ lock = p
  /\ LET r == select_excel_sheet(app, fs, sheet) IN
     /\ app' = r.app
     /\ resp' = Return("select", r.res, [NoArgs EXCEPT !.sheet = sheet], r.wb_read)
  /\ pc' = [pc EXCEPT ![p] = "idle"]
  /\ lock' = 0
  /\ UNCHANGED <<fs, poisoned, pend, probe, xl, cv>>

\* ExecBody keeping the truncated result of a successful query as the source
ExecBodyKeepsResult(p, sql, max_rows) ==
  /\ pc[p] = "in_exec"
  /\ lock = p
  /\ LET r == exec_sql(app, fs, sql, max_rows)
         q == RunQuery(Unwrap(app.source), fs, sql)
     IN /\ resp' = Return("exec", r.res,
                          [NoArgs EXCEPT !.sql = sql, !.max_rows = max_rows],
                          r.sql_run)
        /\ app' = IF r.res.ok
                    THEN [app EXCEPT !.source =
                            Some(EagerFrame(Unwrap(app.file_kind),
                                            Truncate(q.val, max_rows)))]
                    ELSE app
  /\ pc' = [pc EXCEPT ![p] = "idle"]
  /\ lock' = 0
  /\ UNCHANGED <<fs, poisoned, pend, probe, xl, cv>>

\* exec_sql, lines 418-462, the guard dropped at the return
ExecBody(p, sql, max_rows) ==
  /\ pc[p] = "in_exec"
  /\ lock = p
  /\ LET r == exec_sql(app, fs, sql, max_rows) IN
     resp' = Return("exec", r.res,
                    [NoArgs EXCEPT !.sql = sql, !.max_rows = max_rows], r.sql_run)
  /\ pc' = [pc EXCEPT ![p] = "idle"]
  /\ lock' = 0
  /\ UNCHANGED <<app, fs, poisoned, pend, probe, xl, cv>>

\* ExportBody keeping the guard when export_query returns an error
ExportBodyKeepsLockOnError(p, sql, path, format) ==
  /\ pc[p] = "in_export"
  /\ lock = p
  /\ LET r == export_query(app, fs, sql, path, format) IN
     /\ fs' = r.fs
     /\ resp' = Return("export", r.res,
                       [NoArgs EXCEPT !.sql = sql, !.path = path,
                                      !.format = format], r.sql_run)
     /\ lock' = IF r.res.ok THEN 0 ELSE p
  /\ pc' = [pc EXCEPT ![p] = "idle"]
  /\ UNCHANGED <<app, poisoned, pend, probe, xl, cv>>

\* export_query, lines 472-518, the guard dropped at the return
ExportBody(p, sql, path, format) ==
  /\ pc[p] = "in_export"
  /\ lock = p
  /\ LET r == export_query(app, fs, sql, path, format) IN
     /\ fs' = r.fs
     /\ resp' = Return("export", r.res,
                       [NoArgs EXCEPT !.sql = sql, !.path = path,
                                      !.format = format], r.sql_run)
  /\ pc' = [pc EXCEPT ![p] = "idle"]
  /\ lock' = 0
  /\ UNCHANGED <<app, poisoned, pend, probe, xl, cv>>

\* a panic of library code run under the guard (the SQL engine of exec_sql
\* and export_query, the workbook reader of select_excel_sheet): unwinding
\* drops the guard and poisons the Mutex
Panic(p) ==
  /\ lock = p
  /\ \/ pc[p] \in {"in_exec", "in_export"} /\ IsSome(app.source)
     \/ pc[p] = "in_select" /\ app.file_kind = Some("Excel")
  /\ poisoned' = TRUE
  /\ lock' = 0
  /\ resp' = [NoResp EXCEPT !.op = OpOfPc(pc[p]), !.err = "panicked"]
  /\ pc' = [pc EXCEPT ![p] = "idle"]
  /\ UNCHANGED <<app, fs, pend, probe, xl, cv>>

\* the environment removes a file
FsRemove(path) ==
  /\ ReadFs(fs, path).st # "missing"
  /\ fs' = [fs EXCEPT ![path] = NoFile]
  /\ resp' = NoResp
  /\ UNCHANGED <<app, lock, poisoned, pc, pend, probe, xl, cv>>

Next ==
  \/ \E p \in Procs, path \in ScanPaths : ScanLoad(p, path)
  \/ \E p \in Procs : ScanCommit(p)
  \/ \E p \in Procs, to \in {"in_select", "in_exec", "in_export"} : Lock(p, to)
  \/ \E p \in Procs, sheet \in SheetArgs : SelectBody(p, sheet)
  \/ \E p \in Procs, sql \in SqlArgs, max_rows \in MaxRowsArgs :
       ExecBody(p, sql, max_rows)
  \/ \E p \in Procs, sql \in ExportSqlArgs, path \in ExportPaths,
        format \in FormatArgs : ExportBody(p, sql, path, format)
  \/ \E p \in Procs : Panic(p)
  \/ \E path \in RemovablePaths : FsRemove(path)

Spec == Init /\ [][Next]_vars

(***************************************************************************)
(* SpecLive: the commands of Spec on fewer inputs, with the fairness of    *)
(* the code's scheduling: a command that holds the guard runs to its       *)
(* return (file and SQL steps terminate), and a caller blocked in          *)
(* state.lock() gets the lock if it is free again and again.               *)
(***************************************************************************)
LivePaths == {P_csv, P_xlsx, P_pdf}
LiveSheets == {"S2", "zz"}
LiveSql == {"SELECT * FROM source", "SELEC"}
LiveMaxRows == {None, Some(1)}
LiveFormats == {"csv", "json"}

\* the return of the command p runs under the guard
Returns(p) ==
  \/ \E sheet \in LiveSheets : SelectBody(p, sheet)
  \/ \E sql \in LiveSql, max_rows \in LiveMaxRows : ExecBody(p, sql, max_rows)
  \/ \E sql \in LiveSql, path \in ExportPaths, format \in LiveFormats :
       ExportBody(p, sql, path, format)

NextLive ==
  \/ \E p \in Procs, path \in LivePaths : ScanLoad(p, path)
  \/ \E p \in Procs : ScanCommit(p)
  \/ \E p \in Procs, to \in {"in_select", "in_exec", "in_export"} : Lock(p, to)
  \/ \E p \in Procs : Returns(p)
  \/ \E p \in Procs : Panic(p)
  \/ \E path \in RemovablePaths : FsRemove(path)

\* one return of each command that runs under the guard.  A return is
\* enabled exactly when p holds the guard in that command, whatever its
\* arguments, so weak fairness of these is weak fairness of Returns(p).
SomeReturn(p) ==
  \/ SelectBody(p, "zz")
  \/ ExecBody(p, "SELEC", None)
  \/ ExportBody(p, "SELEC", P_ro, "json")

SpecLive ==
  /\ Init /\ [][NextLive]_vars
  /\ \A p \in Procs : WF_vars(SomeReturn(p)) /\ SF_vars(ScanCommit(p))

(***************************************************************************)
(* SpecDetect: scan_file_metadata's detection and load dispatch on one     *)
(* path, built from a stem, an extension and a .gz suffix, and one file    *)
(***************************************************************************)
SupportedExts ==
  {<<"p","a","r","q","u","e","t">>, <<"p","a","r","q">>, <<"c","s","v">>,
   <<"t","s","v">>, <<"t","x","t">>, <<"j","s","o","n","l">>,
   <<"n","d","j","s","o","n">>, <<"j","s","o","n">>, <<"a","r","r","o","w">>,
   <<"f","e","a","t","h","e","r">>, <<"i","p","c">>, <<"x","l","s","x">>,
   <<"x","l","s">>}
OtherExts ==
  {<<"p","d","f">>, <<"g","z","i","p">>, <<"c","s","v","x">>, <<"t","a","r">>,
   <<>>}
ProbeExts ==
  {None} \cup {Some(e) : e \in SupportedExts \cup OtherExts}
         \cup {Some(to_ascii_uppercase(e)) : e \in SupportedExts \cup OtherExts}
         \cup {Some(<<UpperChar(e[1])>> \o Tail(e)) : e \in SupportedExts}
ProbeStems == {<<"d">>, <<"a",".","b">>, <<>>}
ProbeGz == {<<>>, <<"g","z">>, <<"G","Z">>}

ProbeFiles ==
  {NoFile,
   [NoFile EXCEPT !.st = "unreadable", !.head = GzipMagic, !.size = 7],
   [NoFile EXCEPT !.st = "file", !.fmt = "garbage"],
   [NoFile EXCEPT !.st = "file", !.fmt = "garbage", !.head = <<31>>, !.size = 1],
   [NoFile EXCEPT !.st = "file", !.fmt = "garbage", !.head = GzipMagic, !.size = 2],
   PlainFile("csv", T_C, <<>>), GzFile("csv", T_C),
   PlainFile("json", T_C, <<>>),
   PlainFile("parquet", T_C, <<>>), GzFile("parquet", T_C),
   [PlainFile("parquet", T_C, <<>>) EXCEPT !.full = FALSE],
   PlainFile("arrow", T_C, <<>>),
   PlainFile("excel", <<>>, Book1),
   [GzFile("excel", <<>>) EXCEPT !.book = Book1]}

BuildPath(stem, ext, gz) ==
  stem \o (IF IsSome(ext) THEN <<".">> \o Unwrap(ext) ELSE <<>>)
       \o (IF gz # <<>> THEN <<".">> \o gz ELSE <<>>)

NoOutcome ==
  [ok |-> FALSE, err |-> "", kind |-> "none", row_count |-> 0, width |-> 0]

\* what the caller sees of a load
Outcome(r) ==
  IF r.ok THEN [ok |-> TRUE, err |-> "", kind |-> r.val.kind,
                row_count |-> r.val.response.row_count,
                width |-> Len(r.val.response.schema)]
  ELSE [NoOutcome EXCEPT !.err = r.err]

InitDetect ==
  /\ app = AppStateDefault /\ fs = Fs0 /\ lock = 0 /\ poisoned = FALSE
  /\ pc = [p \in Procs |-> "idle"] /\ pend = [p \in Procs |-> None]
  /\ resp = NoResp /\ xl = XlOff /\ cv = CvOff
  /\ \E stem \in ProbeStems, ext \in ProbeExts, gz \in ProbeGz, f \in ProbeFiles :
       probe = [stage |-> "input", stem |-> stem, ext |-> ext, gz |-> gz,
                path |-> BuildPath(stem, ext, gz), file |-> f,
                det |-> [ok |-> FALSE, err |-> "", val |-> NoSpec],
                load |-> NoOutcome]

\* detect_file_kind on the probe's path
ProbeDetect ==
  /\ probe.stage = "input"
  /\ probe' = [probe EXCEPT !.stage = "detected",
                            !.det = detect_file_kind(probe.path,
                                                     probe.path :> probe.file)]
  /\ UNCHANGED <<app, fs, lock, poisoned, pc, pend, resp, xl, cv>>

\* what ProbeLoad keeps for the commit
BuiltLoad(r) == IF r.ok THEN Some(r.val) ELSE None

\* the rest of the load (scan_file_metadata, lines 323-359)
ProbeLoad ==
  /\ probe.stage = "detected"
  /\ probe' = [probe EXCEPT !.stage = "loaded",
                            !.load = Outcome(scan_load(probe.path,
                                                       probe.path :> probe.file))]
  /\ pend' = [pend EXCEPT ![1] = BuiltLoad(scan_load(probe.path,
                                                      probe.path :> probe.file))]
  /\ UNCHANGED <<app, fs, lock, poisoned, pc, resp, xl, cv>>

\* the commit of a load that succeeded (lines 361-368), the lock being free
ProbeCommit ==
  /\ probe.stage = "loaded"
  /\ IsSome(pend[1])
  /\ probe' = [probe EXCEPT !.stage = "committed"]
  /\ app' = scan_commit(app, Unwrap(pend[1]))
  /\ pend' = [pend EXCEPT ![1] = None]
  /\ UNCHANGED <<fs, lock, poisoned, pc, resp, xl, cv>>

NextDetect == ProbeDetect \/ ProbeLoad \/ ProbeCommit

SpecDetect == InitDetect /\ [][NextDetect]_vars

(***************************************************************************)
(* SpecExcel: the data-row loop of load_excel_sheet, one row per step, on  *)
(* a header row and data rows of any lengths up to MaxRowLen               *)
(***************************************************************************)
MaxRowLen == 2
MaxDataRows == 2

HeaderCells == {XlEmpty, XlStr(<<"h">>), XlStr(<<" ">>), XlStr(<<" ","h">>)}
DataCells == {XlEmpty, XlStr(<<"a">>)}
RowsOver(cells) == UNION {[1..n -> cells] : n \in 1..MaxRowLen}

InitExcel ==
  /\ app = AppStateDefault /\ fs = Fs0 /\ lock = 0 /\ poisoned = FALSE
  /\ pc = [p \in Procs |-> "idle"] /\ pend = [p \in Procs |-> None]
  /\ resp = NoResp /\ probe = ProbeOff /\ cv = CvOff
  /\ \E rows \in {<<>>} \cup {<<h>> : h \in RowsOver(HeaderCells)} :
       xl = [stage |-> "loop", empty |-> (rows = <<>>),
             hrow |-> (IF rows = <<>> THEN <<>> ELSE rows[1]),
             headers |-> ExcelHeaders(rows),
             columns |-> [c \in 1..Len(ExcelHeaders(rows)) |-> <<>>],
             done |-> 0, result |-> Err("")]

\* one turn of the loop (lines 167-177) on the next data row
XlPushRow(row) ==
  /\ xl.stage = "loop"
  /\ ~xl.empty
  /\ xl.done < MaxDataRows
  /\ xl' = [xl EXCEPT
              !.headers = ExcelPushRow([headers |-> xl.headers,
                                        columns |-> xl.columns], row).headers,
              !.columns = ExcelPushRow([headers |-> xl.headers,
                                        columns |-> xl.columns], row).columns,
              !.done = xl.done + 1]
  /\ UNCHANGED <<app, fs, lock, poisoned, pc, pend, resp, probe, cv>>

\* the rows are exhausted: lines 179-186
XlFinish ==
  /\ xl.stage = "loop"
  /\ xl' = [xl EXCEPT
              !.stage = "done",
              !.result = DataFrameNew(ExcelSeries([headers |-> xl.headers,
                                                   columns |-> xl.columns]))]
  /\ UNCHANGED <<app, fs, lock, poisoned, pc, pend, resp, probe, cv>>

NextExcel == (\E row \in RowsOver(DataCells) : XlPushRow(row)) \/ XlFinish

SpecExcel == InitExcel /\ [][NextExcel]_vars

(***************************************************************************)
(* SpecCoerce: any_value_to_json on one integer cell, of any integer        *)
(* variant, whose limbs are each at a boundary of the limb                  *)
(***************************************************************************)
BoundaryLimbs(m) == {0, 1, m \div 2 - 1, m \div 2, m - 2, m - 1}

CellPatterns(w) ==
  {bits \in [1..LimbsOfWidth(w) -> BoundaryLimbs(Limb) \cup BoundaryLimbs(TopLimb(w))] :
     /\ bits[LimbsOfWidth(w)] \in BoundaryLimbs(TopLimb(w))
     /\ \A k \in 1..(LimbsOfWidth(w) - 1) : bits[k] \in BoundaryLimbs(Limb)}

InitCoerce ==
  /\ app = AppStateDefault /\ fs = Fs0 /\ lock = 0 /\ poisoned = FALSE
  /\ pc = [p \in Procs |-> "idle"] /\ pend = [p \in Procs |-> None]
  /\ resp = NoResp /\ probe = ProbeOff /\ xl = XlOff
  /\ \E t \in IntVariants :
       \E bits \in CellPatterns(BitsOfVariant(t)) :
         cv = [stage |-> "cell", value |-> [t |-> t, bits |-> bits]]

\* the coercion of the cell (exec_sql, line 452)
Coerce ==
  /\ cv.stage = "cell"
  /\ cv' = [stage |-> "json", value |-> cv.value,
            json |-> any_value_to_json(cv.value)]
  /\ UNCHANGED <<app, fs, lock, poisoned, pc, pend, resp, probe, xl>>

NextCoerce == Coerce

SpecCoerce == InitCoerce /\ [][NextCoerce]_vars

(***************************************************************************)
(* Properties of the session commands (Spec)                               *)
(***************************************************************************)
\* C1: a failed load leaves the session untouched.  Every step in which
\* scan_file_metadata returns an error, and every step of a load that has
\* not yet committed, leaves the five session fields as they were, and
\* exec_sql returns after the failure what it returned before it, for
\* every statement and row limit.
C1_FailedLoadUntouched ==
  [][/\ (resp'.op = "scan" /\ ~resp'.ok) =>
          /\ app' = app
          /\ \A sql \in SqlArgs, m \in MaxRowsArgs :
               exec_sql(app', fs', sql, m) = exec_sql(app, fs, sql, m)
     /\ (\E p \in Procs : pc[p] = "idle" /\ pc'[p] = "scan_loaded") => app' = app
    ]_vars

\* a load of a missing file has failed on a session that holds a workbook
C1_Witness ==
  /\ resp.op = "scan" /\ ~resp.ok /\ resp.err = "IoError"
  /\ resp.args.path = P_missing
  /\ app.file_kind = Some("Excel") /\ IsSome(app.source)

\* C2: the session invariant.  In every reachable state, a file kind other
\* than Excel goes with an empty sheet list and an absent active sheet, and
\* the Excel kind goes with a present active sheet.
C2_SessionInvariant ==
  /\ (IsSome(app.file_kind) /\ app.file_kind # Some("Excel")) =>
       (app.sheets = <<>> /\ app.active_sheet = None)
  /\ app.file_kind = Some("Excel") => IsSome(app.active_sheet)

\* a sheet switch has made S2 the active sheet of a loaded workbook
C2_Witness ==
  /\ app.file_kind = Some("Excel") /\ app.active_sheet = Some("S2")
  /\ resp.op = "select" /\ resp.ok

\* C3: each of the four commands holds the session lock for its full
\* duration: a process that has begun a command and not yet returned holds
\* the lock, so no step of another command falls between its steps.
C3_LockHeldThroughout == \A p \in Procs : pc[p] # "idle" => lock = p

\* C4 as stated: select_excel_sheet fails with NoSourceLoaded when no file is
\* loaded and with NotExcel when the loaded file is not a workbook; in both
\* cases no workbook is read and the session is unchanged.
C4_SelectRejects_AsStated ==
  [][resp'.op = "select" =>
       /\ ~IsSome(app.file_path) =>
            (~resp'.ok /\ resp'.err = "NoSourceLoaded" /\ ~resp'.ran /\ app' = app)
       /\ (IsSome(app.file_path) /\ app.file_kind # Some("Excel")) =>
            (~resp'.ok /\ resp'.err = "NotExcel" /\ ~resp'.ran /\ app' = app)
    ]_vars

\* C4 amended: as stated while the lock is not poisoned; on a poisoned lock
\* select_excel_sheet fails with StateUnavailable.  In every one of these
\* cases no workbook is read and the session is unchanged.
C4_SelectRejects ==
  [][resp'.op = "select" =>
       /\ (~poisoned /\ ~IsSome(app.file_path)) =>
            (~resp'.ok /\ resp'.err = "NoSourceLoaded" /\ ~resp'.ran /\ app' = app)
       /\ (~poisoned /\ IsSome(app.file_path) /\ app.file_kind # Some("Excel")) =>
            (~resp'.ok /\ resp'.err = "NotExcel" /\ ~resp'.ran /\ app' = app)
       /\ poisoned =>
            (~resp'.ok /\ resp'.err = "StateUnavailable" /\ ~resp'.ran /\ app' = app)
    ]_vars

\* a sheet switch on a loaded csv file has been rejected
C4_Witness ==
  /\ resp.op = "select" /\ resp.err = "NotExcel" /\ ~resp.ran
  /\ app.file_kind = Some("Csv")

\* C5: on a session without a source, exec_sql and export_query return
\* NoSourceLoaded whatever their arguments; the call cannot panic and can
\* always return, and its return releases the lock unpoisoned, has run no
\* SQL and leaves the files as they were.
C5_NoSourceLoaded ==
  /\ [](\A p \in Procs :
          (pc[p] \in {"in_exec", "in_export"} /\ ~IsSome(app.source)) =>
            /\ ~ENABLED Panic(p)
            /\ pc[p] = "in_exec" =>
                 \A sql \in SqlArgs, m \in MaxRowsArgs : ENABLED ExecBody(p, sql, m)
            /\ pc[p] = "in_export" =>
                 \A sql \in ExportSqlArgs, path \in ExportPaths, f \in FormatArgs :
                   ENABLED ExportBody(p, sql, path, f))
  /\ [][(resp'.op \in {"exec", "export"} /\ ~IsSome(app.source)) =>
          /\ ~resp'.ok /\ resp'.err = "NoSourceLoaded"
          /\ ~resp'.ran
          /\ fs' = fs /\ app' = app
          /\ lock' = 0 /\ ~poisoned'
          /\ \A p \in Procs : pc[p] \in {"in_exec", "in_export"} => pc'[p] = "idle"
       ]_vars

\* an export on the empty session has been rejected and wrote no file
C5_Witness ==
  /\ resp.op = "export" /\ resp.err = "NoSourceLoaded"
  /\ resp.args.path = P_out /\ resp.args.format = "csv"
  /\ ~IsSome(app.source) /\ ReadFs(fs, P_out).st = "missing"

\* C6: exec_sql and export_query are read-only on the session.  Every step
\* in which one of them returns or panics leaves the five session fields as
\* they were, and a query leaves the files as they were too, so a later
\* query sees what it would have seen.
C6_QueriesReadOnly ==
  [][resp'.op \in {"exec", "export"} =>
       /\ app' = app
       /\ resp'.op = "exec" => fs' = fs
    ]_vars

\* an export of the loaded source has written its file
C6_Witness ==
  /\ resp.op = "export" /\ resp.ok /\ resp.ran
  /\ ReadFs(fs, P_out).st = "file" /\ IsSome(app.source)

\* C7: the row limit is a prefix-take applied after execution.  A
\* successful exec_sql with max_rows = N on an executed result R of k rows
\* returns the first min(N, k) rows of R in R's order and that row count;
\* without max_rows it returns all k rows; the columns are R's in R's order.
C7_RowLimitIsPrefix ==
  (resp.op = "exec" /\ resp.ok) =>
    LET R == QueryResultOf(RunQuery(Unwrap(app.source), fs, resp.args.sql).val)
        k == R.row_count
        n == IF IsSome(resp.args.max_rows) THEN Min(Unwrap(resp.args.max_rows), k)
             ELSE k
    IN /\ resp.val.rows = SubSeq(R.rows, 1, n)
       /\ resp.val.row_count = n
       /\ Len(resp.val.rows) = n
       /\ resp.val.columns = R.columns

\* a query of three rows has been cut to its first two
C7_Witness ==
  /\ resp.op = "exec" /\ resp.ok /\ resp.args.max_rows = Some(2)
  /\ resp.args.sql = "SELECT name, id FROM source"
  /\ resp.val.row_count = 2
  /\ Height(RunQuery(Unwrap(app.source), fs, resp.args.sql).val) = 3

(***************************************************************************)
(* Properties of detection and load dispatch (SpecDetect)                  *)
(***************************************************************************)
\* C8: format detection.  On name.e, e a supported extension in lower,
\* upper or mixed case, detect_file_kind returns the kind of the table,
\* with compressed = false when the file does not start with the gzip magic
\* bytes; on name.e.gz it returns the same kind with compressed = true; on
\* every other extension, no extension and a bare name.gz it fails with
\* UnsupportedFormat, whatever the file is.
C8_FormatDetection ==
  (probe.stage \in {"detected", "loaded"} /\ probe.stem # <<>>) =>
    LET Variants(e) == {Some(e), Some(to_ascii_uppercase(e)),
                        Some(<<UpperChar(e[1])>> \o Tail(e))}
        TableKind(e) ==
          CASE e \in {<<"p","a","r","q","u","e","t">>, <<"p","a","r","q">>} -> "Parquet"
            [] e \in {<<"c","s","v">>, <<"t","s","v">>, <<"t","x","t">>} -> "Csv"
            [] e \in {<<"j","s","o","n","l">>, <<"n","d","j","s","o","n">>} -> "JsonLines"
            [] e = <<"j","s","o","n">> -> "Json"
            [] e \in {<<"a","r","r","o","w">>, <<"f","e","a","t","h","e","r">>,
                      <<"i","p","c">>} -> "Arrow"
            [] e \in {<<"x","l","s","x">>, <<"x","l","s">>} -> "Excel"
        magic == probe.file.st = "file" /\ probe.file.head = <<31, 139>>
        supported == \E e \in SupportedExts : probe.ext \in Variants(e)
    IN /\ \A e \in SupportedExts :
            probe.ext \in Variants(e) =>
              /\ probe.det.ok
              /\ probe.det.val.kind = TableKind(e)
              /\ probe.gz # <<>> => probe.det.val.compressed
              /\ (probe.gz = <<>> /\ ~magic) => ~probe.det.val.compressed
       /\ ~supported => (~probe.det.ok /\ probe.det.err = "UnsupportedFormat")

\* d.XLSX.gz has been detected as a compressed workbook
C8_Witness ==
  /\ probe.stage = "detected"
  /\ probe.path = <<"d",".","X","L","S","X",".","g","z">>
  /\ probe.det.ok /\ probe.det.val.kind = "Excel" /\ probe.det.val.compressed

\* C9: a load whose detected FileSpec is compressed and of kind Parquet,
\* Arrow or Excel fails with UnsupportedCompression.
C9_CompressedRejected ==
  (probe.stage = "loaded" /\ probe.det.ok /\ probe.det.val.compressed
     /\ probe.det.val.kind \in {"Parquet", "Arrow", "Excel"}) =>
    (~probe.load.ok /\ probe.load.err = "UnsupportedCompression")

C11_HeaderSynthesis ==
  xl.stage \in {"loop", "done"} =>
    LET Digit(i) == <<"1", "2", "3", "4", "5", "6", "7", "8", "9">>[i]
        Synth(i) == <<"c", "o", "l", "_", Digit(i)>>
        Blank(cell) ==
          \/ cell.t = "Empty"
          \/ cell.t = "String" /\ \A k \in 1..Len(cell.s) : cell.s[k] = " "
    IN /\ Len(xl.headers) >= Len(xl.hrow)
       /\ \A i \in 1..Len(xl.headers) :
            xl.headers[i] =
              IF i <= Len(xl.hrow) /\ ~Blank(xl.hrow[i]) THEN xl.hrow[i].s
              ELSE Synth(i)

\* a whitespace-only header cell and a longer data row gave col_1 and col_2
C11_Witness ==
  /\ xl.stage = "loop" /\ xl.done = 1
  /\ xl.hrow = <<XlStr(<<" ">>)>>
  /\ xl.headers = << <<"c","o","l","_","1">>, <<"c","o","l","_","2">> >>

\* C12: a null cell is a null scalar in every output path.  In the rows of a
\* successful exec_sql a null value of the result is the JSON null; after a
\* successful xlsx export the workbook, loaded again, has null wherever the
\* exported result has null.
C12_NullStaysNull ==
  /\ (resp.op = "exec" /\ resp.ok) =>
       LET R == Truncate(RunQuery(Unwrap(app.source), fs, resp.args.sql).val,
                         resp.args.max_rows)
       IN \A c \in 1..Width(R), r \in 1..Height(R) :
            R[c].values[r].t = "Null" => resp.val.rows[r][c].j = "null"
  /\ (resp.op = "export" /\ resp.ok /\ resp.args.format = "xlsx") =>
       LET R == RunQuery(Unwrap(app.source), fs, resp.args.sql).val
           back == load_excel_sheet(resp.args.path, None, fs)
       IN /\ back.ok
          /\ \A c \in 1..Width(R), r \in 1..Height(R) :
               R[c].values[r].t = "Null" => back.val.df[c].values[r].t = "Null"

\* C13 as stated: every return of export_query called with a format other
\* than "csv" and "xlsx" is the error UnsupportedExportFormat, and the call
\* leaves the files as they were.
C13_BadFormat_AsStated ==
  [][(/\ resp'.op = "export" /\ resp'.err # "panicked"
      /\ \E p \in Procs : pc[p] = "in_export" /\ pc'[p] = "idle"
      /\ resp'.args.format \notin {"csv", "xlsx"}) =>
       (~resp'.ok /\ resp'.err = "UnsupportedExportFormat" /\ fs' = fs)
    ]_vars

\* C13 amended: export_query called with a format other than "csv" and
\* "xlsx" fails and leaves the files as they were; its error is
\* NoSourceLoaded when the session has no source, QueryError when the query
\* fails, and UnsupportedExportFormat otherwise; on a poisoned lock
\* export_query fails with StateUnavailable and writes nothing.
C13_BadFormat ==
  [][/\ (/\ resp'.op = "export" /\ resp'.err # "panicked"
         /\ \E p \in Procs : pc[p] = "in_export" /\ pc'[p] = "idle"
         /\ resp'.args.format \notin {"csv", "xlsx"}) =>
          /\ ~resp'.ok /\ fs' = fs
          /\ resp'.err =
               IF ~IsSome(app.source) THEN "NoSourceLoaded"
               ELSE IF ~RunQuery(Unwrap(app.source), fs, resp'.args.sql).ok
                 THEN "QueryError"
               ELSE "UnsupportedExportFormat"
     /\ (resp'.op = "export" /\ poisoned) =>
          (~resp'.ok /\ resp'.err = "StateUnavailable" /\ fs' = fs)
    ]_vars

\* an export with format "CSV" of a loaded source has been rejected
C13_Witness ==
  /\ resp.op = "export" /\ resp.err = "UnsupportedExportFormat"
  /\ resp.args.format = "CSV" /\ resp.args.path = P_out /\ resp.ran
  /\ ReadFs(fs, P_out).st = "missing"

\* C14: successful operations replace, never merge.  A load that is built
\* holds the kind, table, sheet list and first sheet of its file (no sheets
\* for a file that is not a workbook); the commit of a successful load sets
\* all five session fields from that load; a successful sheet switch to s
\* sets the source to the table of sheet s, the active sheet to s and the
\* sheet list to the workbook's, and leaves file_path and file_kind alone.
C14_ReplaceNeverMerge ==
  [][/\ \A p \in Procs :
          (pc[p] = "idle" /\ pc'[p] = "scan_loaded") =>
            LET ld == Unwrap(pend'[p])
                f == ReadFs(fs, ld.path)
            IN /\ ld.kind = detect_file_kind(ld.path, fs).val.kind
               /\ IF ld.kind = "Excel"
                    THEN /\ ld.sheets = [k \in 1..Len(f.book) |-> f.book[k].name]
                         /\ ld.active_sheet = Some(f.book[1].name)
                         /\ ~ld.lf.scan
                         /\ ld.lf.df = MaterializeRows(f.book[1].rows).val
                    ELSE /\ ld.sheets = <<>> /\ ld.active_sheet = None
                         /\ Collect(ld.lf, fs) = Ok(f.table)
     /\ \A p \in Procs :
          (pc[p] = "scan_loaded" /\ pc'[p] = "idle" /\ resp'.ok) =>
            LET ld == Unwrap(pend[p])
            IN /\ resp'.op = "scan" /\ resp'.args.path = ld.path
               /\ app' = [source |-> Some(ld.lf), file_path |-> Some(ld.path),
                          file_kind |-> Some(ld.kind), sheets |-> ld.sheets,
                          active_sheet |-> ld.active_sheet]
     /\ (resp'.op = "select" /\ resp'.ok) =>
          LET s == resp'.args.sheet
              book == ReadFs(fs, Unwrap(app.file_path)).book
              k == CHOOSE j \in 1..Len(book) : book[j].name = s
          IN /\ \E j \in 1..Len(book) : book[j].name = s
             /\ ~Unwrap(app'.source).scan
             /\ Unwrap(app'.source).df = MaterializeRows(book[k].rows).val
             /\ app'.active_sheet = Some(s)
             /\ app'.sheets = [j \in 1..Len(book) |-> book[j].name]
             /\ app'.file_path = app.file_path /\ app'.file_kind = app.file_kind
    ]_vars

\* a json file has been loaded and committed while the load of a workbook by
\* another caller is built and not yet committed
C14_Witness ==
  /\ resp.op = "scan" /\ resp.ok /\ resp.args.path = P_jsongz
  /\ app.file_kind = Some("Json") /\ app.sheets = <<>>
  /\ \E p \in Procs : pc[p] = "scan_loaded" /\ Unwrap(pend[p]).kind = "Excel"

\* C15: row-count reporting on load.  A load of a file that is not a
\* workbook succeeds with row_count = 0 when the count-only aggregation
\* fails (a lazily scanned file whose rows cannot be read), and commits the
\* new session state; a load of a workbook reports the number of rows after
\* the header row of its first sheet; a load whose count succeeds on a table
\* of N rows and M columns reports row_count = N and a schema of M fields.
C15_RowCountOnLoad ==
  LET f == probe.file
      countFails == ~f.full
      lazyReadable ==
        /\ probe.det.ok /\ ~probe.det.val.compressed
        /\ probe.det.val.kind \in {"Parquet", "Csv"}
        /\ f.st = "file" /\ ~f.gz
        /\ f.fmt = (IF probe.det.val.kind = "Parquet" THEN "parquet" ELSE "csv")
  IN /\ (probe.stage \in {"loaded", "committed"} /\ lazyReadable /\ countFails) =>
          (probe.load.ok /\ probe.load.row_count = 0)
     /\ (probe.stage \in {"loaded", "committed"} /\ probe.load.ok) =>
          IF probe.load.kind = "Excel"
            THEN probe.load.row_count = Len(f.book[1].rows) - 1
          ELSE /\ probe.load.width = Len(f.table)
               /\ probe.load.row_count =
                    IF countFails THEN 0 ELSE Len(f.table[1].values)
     /\ (probe.stage = "loaded" /\ probe.load.ok) => ENABLED ProbeCommit
     /\ probe.stage = "committed" =>
          /\ IsSome(app.source)
          /\ app.file_path = Some(probe.path)
          /\ app.file_kind = Some(probe.load.kind)

\* a parquet file whose rows cannot be read has been loaded with row_count 0
\* and committed
C15_Witness ==
  /\ probe.stage = "committed" /\ ~probe.file.full
  /\ probe.load.ok /\ probe.load.kind = "Parquet" /\ probe.load.row_count = 0
  /\ probe.load.width = 1 /\ app.file_kind = Some("Parquet")

\* C16: once the lock is poisoned, every return of scan_file_metadata,
\* select_excel_sheet, exec_sql and export_query is the error
\* StateUnavailable, and the call has left the session fields and the files
\* as they were and has run no SQL and opened no workbook.
C16_PoisonedLockFailsAll ==
  [][(poisoned /\ resp'.op # "none") =>
       /\ ~resp'.ok /\ resp'.err = "StateUnavailable"
       /\ ~resp'.ran
       /\ app' = app /\ fs' = fs
    ]_vars

(***************************************************************************)
(* Properties of the lock (SpecLive)                                       *)
(***************************************************************************)
\* C17 as stated: a command that returns, with a result or with any error,
\* no longer holds the lock; at most one command holds it at a time; a held
\* lock is eventually released, and a load blocked in state.lock()
\* eventually acquires the lock.
C17_LockReleased_AsStated ==
  /\ [](\A p, q \in Procs :
          (pc[p] \in {"in_select", "in_exec", "in_export"}
             /\ pc[q] \in {"in_select", "in_exec", "in_export"}) =>
            (p = q /\ lock = p))
  /\ [](\A p \in Procs : lock = p => pc[p] \in {"in_select", "in_exec", "in_export"})
  /\ [][\A p \in Procs : (pc[p] # "idle" /\ pc'[p] = "idle") => lock' = 0]_vars
  /\ \A p \in Procs : (lock = p) ~> (lock = 0)
  /\ \A p \in Procs : (pc[p] = "scan_loaded") ~> (pc[p] = "idle" /\ ~poisoned)

\* C17 amended: as stated, except that a load blocked in state.lock()
\* eventually acquires the lock or, the lock being poisoned by a panic, is
\* refused with StateUnavailable.
C17_LockReleased ==
  /\ [](\A p, q \in Procs :
          (pc[p] \in {"in_select", "in_exec", "in_export"}
             /\ pc[q] \in {"in_select", "in_exec", "in_export"}) =>
            (p = q /\ lock = p))
  /\ [](\A p \in Procs : lock = p => pc[p] \in {"in_select", "in_exec", "in_export"})
  /\ [][\A p \in Procs : (pc[p] # "idle" /\ pc'[p] = "idle") => lock' = 0]_vars
  /\ [][\A p \in Procs :
         (pc[p] = "scan_loaded" /\ pc'[p] = "idle") =>
           IF poisoned THEN resp'.err = "StateUnavailable" ELSE resp'.ok]_vars
  /\ \A p \in Procs : (lock = p) ~> (lock = 0)
  /\ \A p \in Procs : (pc[p] = "scan_loaded") ~> (pc[p] = "idle")

\* an export has failed on the write of its file and the lock is free while
\* a load waits for it
C17_Witness ==
  /\ resp.op = "export" /\ resp.err = "IoError" /\ resp.args.path = P_ro
  /\ lock = 0
  /\ \E p \in Procs : pc[p] = "scan_loaded"

(***************************************************************************)
(* More properties of detection (SpecDetect)                               *)
(***************************************************************************)
\* C18: gzip sniffing is best-effort and only upgrades.  For a supported
\* extension without a .gz suffix detection succeeds and compressed is true
\* exactly when the file can be opened and its first two bytes are 0x1F 0x8B
\* (false for a missing, unreadable or shorter file); with a .gz suffix
\* compressed is true and the outcome is the one of a missing file, so it
\* does not depend on the file.
C18_GzipSniffing ==
  (probe.stage \in {"detected", "loaded", "committed"} /\ probe.stem # <<>>) =>
    LET supported ==
          \E e \in SupportedExts :
            probe.ext \in {Some(e), Some(to_ascii_uppercase(e)),
                           Some(<<UpperChar(e[1])>> \o Tail(e))}
        f == probe.file
        magic == /\ f.st = "file"
                 /\ Len(f.head) >= 2
                 /\ f.head[1] = 31 /\ f.head[2] = 139
    IN supported =>
         /\ probe.det.ok
         /\ probe.gz = <<>> => (probe.det.val.compressed <=> magic)
         /\ probe.gz # <<>> =>
              /\ probe.det.val.compressed
              /\ probe.det = detect_file_kind(probe.path, probe.path :> NoFile)

\* a file that starts with the gzip magic but cannot be opened has been
\* detected as an uncompressed csv
C18_Witness ==
  /\ probe.stage = "detected"
  /\ probe.path = <<"d",".","c","s","v">>
  /\ probe.file.st = "unreadable" /\ probe.file.head = <<31, 139>>
  /\ probe.det.ok /\ ~probe.det.val.compressed

(***************************************************************************)
(* More properties of the session commands (Spec)                          *)
(***************************************************************************)
\* C19: active-sheet selection of load_excel_sheet.  A selection by name
\* that succeeds answers that name as the active sheet and the table of that
\* sheet, and a name the workbook does not have fails with no table and no
\* change of the session; a load without a name that succeeds has the first
\* sheet of the workbook active, and fails with NoSheets on a workbook of
\* zero sheets; the sheet list answered is always the full list of the
\* workbook in stored order.
C19_ActiveSheet ==
  [][/\ \A p \in Procs :
          (pc[p] = "in_select" /\ pc'[p] = "idle" /\ resp'.ran) =>
            LET f == ReadFs(fs, Unwrap(app.file_path))
                s == resp'.args.sheet
                names == [j \in 1..Len(f.book) |-> f.book[j].name]
                has == \E j \in 1..Len(f.book) : f.book[j].name = s
                k == CHOOSE j \in 1..Len(f.book) : f.book[j].name = s
            IN /\ resp'.ok =>
                    /\ has
                    /\ resp'.val.active_sheet = Some(s)
                    /\ resp'.val.sheets = names
                    /\ app'.active_sheet = Some(s) /\ app'.sheets = names
                    /\ Unwrap(app'.source).df = MaterializeRows(f.book[k].rows).val
               /\ (f.st = "file" /\ ~has) =>
                    (~resp'.ok /\ resp'.val = NoResponse /\ app' = app)
     /\ \A p \in Procs :
          (pc[p] = "idle" /\ pc'[p] = "scan_loaded"
             /\ Unwrap(pend'[p]).kind = "Excel") =>
            LET ld == Unwrap(pend'[p])
                f == ReadFs(fs, ld.path)
            IN /\ f.book # <<>>
               /\ ld.active_sheet = Some(f.book[1].name)
               /\ ld.response.active_sheet = Some(f.book[1].name)
               /\ ld.sheets = [j \in 1..Len(f.book) |-> f.book[j].name]
               /\ ld.response.sheets = ld.sheets
     /\ \A path \in {P_xlsx, P_nosheet, P_ragged} :
          (resp'.op = "scan" /\ resp'.args.path = path /\ pc' = pc
             /\ ReadFs(fs, path).st = "file" /\ ReadFs(fs, path).book = <<>>) =>
            (~resp'.ok /\ resp'.err = "NoSheets" /\ resp'.val = NoResponse)
    ]_vars

\* the second sheet of a workbook of three has been selected by name
C19_Witness ==
  /\ resp.op = "select" /\ resp.ok /\ resp.args.sheet = "S2"
  /\ resp.val.active_sheet = Some("S2")
  /\ resp.val.sheets = <<"S1", "S2", "S3">>
  /\ app.active_sheet = Some("S2")

(***************************************************************************)
(* Properties of value coercion (SpecCoerce)                               *)
(***************************************************************************)
\* C20: integer coercion never silently wraps.  The JSON number that
\* any_value_to_json makes of an integer cell has the numeric value of the
\* cell, as sign and magnitude: for an unsigned cell of any width, 2^63 - 1,
\* 2^63 and 2^64 - 1 included, it is not negative and its magnitude is the
\* cell's pattern; for a signed cell of any width it has the cell's sign and
\* the magnitude of the cell at its own width.
C20_IntegersPreserved ==
  cv.stage = "json" =>
    LET c == cv.value
        top == IF c.t \in {"Int8", "UInt8"} THEN 256 ELSE 65536
        Modulus(k, len, tp) == IF k = len THEN tp ELSE 65536
        Negate(bits, tp) ==
          [k \in 1..Len(bits) |->
             ((Modulus(k, Len(bits), tp) - 1 - bits[k])
                + (IF \A j \in 1..(k - 1) : bits[j] = 0 THEN 1 ELSE 0))
               % Modulus(k, Len(bits), tp)]
        Pad(bits) == [k \in 1..4 |-> IF k <= Len(bits) THEN bits[k] ELSE 0]
        negative == /\ c.t \in {"Int8", "Int16", "Int32", "Int64"}
                    /\ c.bits[Len(c.bits)] >= top \div 2
        expected == [neg |-> negative,
                     mag |-> Pad(IF negative THEN Negate(c.bits, top) ELSE c.bits)]
        num == cv.json.n
        got == [neg |-> num.n = "NegInt",
                mag |-> IF num.n = "NegInt" THEN Negate(num.bits, 65536)
                        ELSE num.bits]
    IN /\ cv.json.j = "number"
       /\ num.n \in {"PosInt", "NegInt"}
       /\ Len(num.bits) = 4 /\ \A k \in 1..4 : num.bits[k] \in 0..65535
       /\ got = expected
       /\ c.t \in {"UInt8", "UInt16", "UInt32", "UInt64"} => ~got.neg

\* the unsigned 64-bit cell 2^63 has been coerced to the positive number 2^63
C20_Witness ==
  /\ cv.stage = "json"
  /\ cv.value = [t |-> "UInt64", bits |-> <<0, 0, 0, 32768>>]
  /\ cv.json = [j |-> "number", n |-> [n |-> "PosInt", bits |-> <<0, 0, 0, 32768>>]]

(***************************************************************************)
(* Properties of the session under concurrent commands (Spec)              *)
(***************************************************************************)
\* C21: atomic commit under concurrency.  Under every interleaving of the
\* commands of two callers, the session after every step is coherent: it is
\* empty, or its source, file_kind, sheets and active_sheet all describe the
\* file that file_path named when it was loaded (for a workbook: the full
\* sheet list, an active sheet of that list and the table of that sheet;
\* for any other file: no sheets and the table or scan of that file); and
\* the session exec_sql runs on is coherent and left as it was.
C21_AtomicCommit ==
  [][LET Coherent(a) ==
           IF ~IsSome(a.file_path) THEN a = AppStateDefault
           ELSE LET path == Unwrap(a.file_path)
                    f == ReadFs(Fs0, path)
                    kind == detect_file_kind(path, Fs0).val.kind
                    src == Unwrap(a.source)
                IN /\ IsSome(a.source)
                   /\ a.file_kind = Some(kind)
                   /\ src.kind = kind
                   /\ IF kind = "Excel"
                        THEN /\ a.sheets = [j \in 1..Len(f.book) |-> f.book[j].name]
                             /\ ~src.scan
                             /\ \E k \in 1..Len(f.book) :
                                  /\ a.active_sheet = Some(f.book[k].name)
                                  /\ src.df = MaterializeRows(f.book[k].rows).val
                        ELSE /\ a.sheets = <<>> /\ a.active_sheet = None
                             /\ IF src.scan
                                  THEN src.path = path /\ src.schema = SchemaOf(f.table)
                                  ELSE src.df = f.table
     IN /\ Coherent(app')
        /\ \A p \in Procs :
             (pc[p] = "in_exec" /\ pc'[p] = "idle") => (Coherent(app) /\ app' = app)
    ]_vars

\* one caller queries a workbook session on its second sheet while the load
\* of a csv file by the other caller waits to be committed
C21_Witness ==
  /\ pc[1] = "scan_loaded" /\ Unwrap(pend[1]).kind = "Csv"
  /\ pc[2] = "in_exec" /\ lock = 2
  /\ app.file_path = Some(P_xlsx) /\ app.active_sheet = Some("S2")

\* C22: a failed sheet switch leaves the session untouched.  Every step in
\* which select_excel_sheet, on a session that holds a workbook, fails after
\* reading the workbook (the file no longer opens, the workbook has no sheet
\* of that name, or the table of the sheet cannot be built) leaves the five
\* session fields as they were, and exec_sql returns after it what it
\* returned before it, the whole table of the active sheet included.
C22_FailedSwitchUntouched ==
  [][\A p \in Procs :
       (pc[p] = "in_select" /\ pc'[p] = "idle"
          /\ app.file_kind = Some("Excel") /\ resp'.ran /\ ~resp'.ok) =>
         /\ resp'.op = "select"
         /\ resp'.err \in {"IoError", "SheetError", "SchemaError"}
         /\ app' = app
         /\ \A sql \in SqlArgs, m \in MaxRowsArgs :
              exec_sql(app', fs', sql, m) = exec_sql(app, fs, sql, m)
         /\ exec_sql(app', fs', "SELECT * FROM source", None).res.ok
    ]_vars

\* the switch to a sheet whose table cannot be built has failed on a session
\* whose active sheet is S2
C22_Witness ==
  /\ resp.op = "select" /\ ~resp.ok /\ resp.err = "SchemaError"
  /\ resp.args.sheet = "S3"
  /\ app.file_path = Some(P_xlsx) /\ app.active_sheet = Some("S2")

====
